---- MODULE Spec2Model ----
(***************************************************************************)
(* Model of the Waveshare 1.02" e-paper driver (src/src/epd1in02).          *)
(*                                                                         *)
(* The driver is single-threaded and blocking, so every public operation   *)
(* is one action.  An operation is computed as the code computes it: a     *)
(* chain of transport-adapter calls threaded through a machine record `m`  *)
(* that carries the bus log, the number of bus writes attempted so far,    *)
(* the index of the bus write the transport will fail (0: none), the       *)
(* result of the last call and the driver's colour field.  Rust's `?` is   *)
(* Try: a failed step is returned as is and the rest of the function, the  *)
(* continuation `next`, does not run.                                      *)
(*                                                                         *)
(* DisplayInterface, Color and the LUT tables live in files that are not   *)
(* part of the two source files; they are modelled from the specification. *)
(***************************************************************************)
EXTENDS Integers, Sequences, FiniteSets, TLC

\* ---------------------------------------------------------------- bounds
\* longest short frame buffer the caller passes
MaxLen == 1
\* largest index of the bus write the transport is made to fail
MaxFailAt == 29
\* largest width and height value fed to the resolution encoding
MaxDim == 255
\* busy polls of one wait that are counted (further polls leave the count)
MaxPolls == 2

\* ------------------------------------------------------------- constants
WIDTH == 80
HEIGHT == 128
DEFAULT_BACKGROUND_COLOR == "White"
IS_BUSY_LOW == TRUE
NUM_DISPLAY_BITS == (WIDTH * HEIGHT) \div 8

Color == {"White", "Black"}
NoColor == "None"

\* Color::get_byte_value
get_byte_value(c) == IF c = "White" THEN 255 ELSE 0

\* enum Command, with its discriminants
Command ==
  [ PanelSetting |-> 0, PowerSetting |-> 1, PowerOff |-> 2, PowerOn |-> 4,
    ChargePumpSetting |-> 6, DeepSleep |-> 7, DataStartTransmission1 |-> 16,
    DisplayRefresh |-> 18, DataStartTransmission2 |-> 19,
    LutForVcom |-> 32, LutWhiteToWhite |-> 33, LutBlackToWhite |-> 34,
    LutG0 |-> 35, LutG1 |-> 36, LutRedVcom |-> 37, LutRed0 |-> 38,
    LutRed1 |-> 39, LutOpt |-> 42, PllControl |-> 48,
    TemperatureSensor |-> 64, TemperatureSensorSelection |-> 65,
    VcomAndDataIntervalSetting |-> 80, GateAndSourceNonOverlapPeriod |-> 96,
    ResolutionSetting |-> 97, VcmDcSetting |-> 130, UnknownInit |-> 210,
    PowerSaving |-> 227 ]

address_seven_bits(c) == Command[c] % 128

\* traits::Command::address: `self as u8`
address(c) == Command[c] % 256

\* waveform tables of constants.rs (42 bytes each)
LutTail == [i \in 1..36 |-> 0]
LUT_W1 == <<96, 90, 90, 0, 0, 1>> \o LutTail
LUT_B1 == <<144, 90, 90, 0, 0, 1>> \o LutTail

\* ------------------------------------------------------------ u8 helpers
RECURSIVE BitAndN(_, _, _)
BitAndN(a, b, n) ==
  IF n = 0 THEN 0
  ELSE (a % 2) * (b % 2) + 2 * BitAndN(a \div 2, b \div 2, n - 1)

\* `a & b` on u8
BitAnd(a, b) == BitAndN(a, b, 8)

\* `x as u8`
AsU8(x) == x % 256

\* ------------------------------------------------------------ bus events
\* k: "cmd" (a write with data/command-select low), "data" (a write with it
\* high), "rst" (reset line driven to v[1]), "delay" (v[1] milliseconds),
\* "idle" (the busy line was polled until it read idle), "sample" (the busy
\* line was read once and had level v[1]).
Ev(k, v, ok) == [k |-> k, v |-> v, ok |-> ok]

Begin(c, failAt) ==
  [trace |-> <<>>, n |-> 0, failAt |-> failAt, res |-> "Ok", color |-> c]

\* `?`: a failed step ends the function with that failure
Try(prev, next(_)) == IF prev.res = "Err" THEN prev ELSE next(prev)

\* `Ok(())` at the end of a function
Ok(m) == [m EXCEPT !.res = "Ok"]

\* ----------------------------------------------- DisplayInterface (spec 4.1)
spi_write(m, k, bytes) ==
  LET fails == (m.n + 1 = m.failAt)
  IN [m EXCEPT !.trace = Append(@, Ev(k, bytes, ~fails)),
               !.n = @ + 1,
               !.res = IF fails THEN "Err" ELSE "Ok"]

log(m, k, v) == [m EXCEPT !.trace = Append(@, Ev(k, v, TRUE))]

interface_reset(m, ms) ==
  log(log(log(m, "rst", <<0>>), "delay", <<ms>>), "rst", <<1>>)

interface_cmd(m, c) == spi_write(m, "cmd", <<address(c)>>)

interface_data(m, bytes) == spi_write(m, "data", bytes)

interface_cmd_with_data(m, c, bytes) ==
  LET s1 == interface_cmd(m, c)
  IN Try(s1, LAMBDA t : interface_data(t, bytes))

interface_data_x_times(m, val, times) ==
  spi_write(m, "data", [i \in 1..times |-> val])

interface_wait_until_idle(m, busyLow) == log(m, "idle", <<>>)

delay_ms(m, ms) == log(m, "delay", <<ms>>)

\* ------------------------------------------------ Epd1in02 private helpers
command(m, c) == interface_cmd(m, c)

send_data(m, bytes) == interface_data(m, bytes)

cmd_with_data(m, c, bytes) == interface_cmd_with_data(m, c, bytes)

wait_until_idle(m) == interface_wait_until_idle(m, IS_BUSY_LOW)

\* one sample of the busy line: level 0 is low, 1 is high
interface_is_busy(busyLow, level) ==
  (busyLow /\ level = 0) \/ (~busyLow /\ level = 1)

width == WIDTH
height == HEIGHT

resolution_bytes_high_nibble(w, h) == <<BitAnd(AsU8(w), 240), AsU8(h)>>

\* the two payload bytes send_resolution computes from width and height
resolution_bytes(w, h) == <<BitAnd(AsU8(w), 120), AsU8(h)>>

send_resolution_swapped(m) ==
  LET s1 == command(m, "ResolutionSetting")
      s2 == Try(s1, LAMBDA t : send_data(t, <<BitAnd(AsU8(height), 120)>>))
  IN Try(s2, LAMBDA t : send_data(t, <<AsU8(width)>>))

send_resolution(m) ==
  LET w == width
      h == height
      s1 == command(m, "ResolutionSetting")
      s2 == Try(s1, LAMBDA t : send_data(t, <<resolution_bytes(w, h)[1]>>))
  IN Try(s2, LAMBDA t : send_data(t, <<resolution_bytes(w, h)[2]>>))

set_full_reg_g1_first(m) ==
  LET s1 == cmd_with_data(m, "LutG1", LUT_B1)
  IN Try(s1, LAMBDA t : cmd_with_data(t, "LutG0", LUT_W1))

set_full_reg(m) ==
  LET s1 == cmd_with_data(m, "LutG0", LUT_W1)
  IN Try(s1, LAMBDA t : cmd_with_data(t, "LutG1", LUT_B1))

\* ------------------------------------------------------------------ init
init_panel_setting_first(m) ==
  LET s0  == interface_reset(m, 2)
      s1  == cmd_with_data(s0, "PanelSetting", <<111>>)
      s2  == Try(s1, LAMBDA t : cmd_with_data(t, "UnknownInit", <<63>>))
      s3  == Try(s2, LAMBDA t : cmd_with_data(t, "PowerSetting", <<3, 0, 43, 43>>))
      s4  == Try(s3, LAMBDA t : cmd_with_data(t, "ChargePumpSetting", <<63>>))
      s5  == Try(s4, LAMBDA t : cmd_with_data(t, "LutOpt", <<0, 0>>))
      s6  == Try(s5, LAMBDA t : cmd_with_data(t, "PllControl", <<23>>))
      s7  == Try(s6, LAMBDA t : cmd_with_data(t, "VcomAndDataIntervalSetting", <<87>>))
      s8  == Try(s7, LAMBDA t : cmd_with_data(t, "GateAndSourceNonOverlapPeriod", <<34>>))
      s9  == Try(s8, LAMBDA t : send_resolution(t))
      s10 == Try(s9, LAMBDA t : cmd_with_data(t, "VcmDcSetting", <<18>>))
      s11 == Try(s10, LAMBDA t : cmd_with_data(t, "PowerSaving", <<51>>))
      s12 == Try(s11, LAMBDA t : set_full_reg(t))
      s13 == Try(s12, LAMBDA t : command(t, "PowerOn"))
  IN Try(s13, LAMBDA t : Ok(wait_until_idle(delay_ms(t, 5))))

init(m) ==
  LET s0  == interface_reset(m, 2)
      s1  == cmd_with_data(s0, "UnknownInit", <<63>>)
      s2  == Try(s1, LAMBDA t : cmd_with_data(t, "PanelSetting", <<111>>))
      s3  == Try(s2, LAMBDA t : cmd_with_data(t, "PowerSetting", <<3, 0, 43, 43>>))
      s4  == Try(s3, LAMBDA t : cmd_with_data(t, "ChargePumpSetting", <<63>>))
      s5  == Try(s4, LAMBDA t : cmd_with_data(t, "LutOpt", <<0, 0>>))
      s6  == Try(s5, LAMBDA t : cmd_with_data(t, "PllControl", <<23>>))
      s7  == Try(s6, LAMBDA t : cmd_with_data(t, "VcomAndDataIntervalSetting", <<87>>))
      s8  == Try(s7, LAMBDA t : cmd_with_data(t, "GateAndSourceNonOverlapPeriod", <<34>>))
      s9  == Try(s8, LAMBDA t : send_resolution(t))
      s10 == Try(s9, LAMBDA t : cmd_with_data(t, "VcmDcSetting", <<18>>))
      s11 == Try(s10, LAMBDA t : cmd_with_data(t, "PowerSaving", <<51>>))
      s12 == Try(s11, LAMBDA t : set_full_reg(t))
      s13 == Try(s12, LAMBDA t : command(t, "PowerOn"))
  IN Try(s13, LAMBDA t : Ok(wait_until_idle(delay_ms(t, 5))))

\* ------------------------------------------------- WaveshareDisplay methods
new(failAt) == init(Begin(DEFAULT_BACKGROUND_COLOR, failAt))

sleep_single_wait(m) ==
  LET s0 == wait_until_idle(m)
      s1 == command(s0, "PowerOff")
      s2 == Try(s1, LAMBDA t : cmd_with_data(t, "DeepSleep", <<165>>))
  IN Try(s2, LAMBDA t : Ok(t))

sleep(m) ==
  LET s0 == wait_until_idle(m)
      s1 == command(s0, "PowerOff")
      s2 == Try(s1, LAMBDA t : cmd_with_data(wait_until_idle(t), "DeepSleep", <<165>>))
  IN Try(s2, LAMBDA t : Ok(t))

wake_up_default_color(m) ==
  init([m EXCEPT !.color = DEFAULT_BACKGROUND_COLOR])

wake_up_warm(m) ==
  LET s1 == command(m, "PowerOn")
  IN Try(s1, LAMBDA t : Ok(wait_until_idle(delay_ms(t, 5))))

wake_up(m) == init(m)

set_background_color_dropped(m, c) == m

set_background_color(m, c) == [m EXCEPT !.color = c]

background_color(m) == m.color

update_frame_skip_flood(m, buffer) ==
  LET s1 == cmd_with_data(m, "DataStartTransmission2", buffer)
  IN Try(s1, LAMBDA t : Ok(t))

update_frame_buffer_first(m, buffer) ==
  LET c  == get_byte_value(m.color)
      s1 == cmd_with_data(m, "DataStartTransmission2", buffer)
      s2 == Try(s1, LAMBDA t : command(wait_until_idle(t), "DataStartTransmission1"))
      s3 == Try(s2, LAMBDA t : interface_data_x_times(t, c, NUM_DISPLAY_BITS))
  IN Try(s3, LAMBDA t : Ok(t))

update_frame(m, buffer) ==
  LET c  == get_byte_value(m.color)
      s1 == command(m, "DataStartTransmission1")
      s2 == Try(s1, LAMBDA t : interface_data_x_times(t, c, NUM_DISPLAY_BITS))
      s3 == Try(s2, LAMBDA t : cmd_with_data(wait_until_idle(t),
                                  "DataStartTransmission2", buffer))
  IN Try(s3, LAMBDA t : Ok(t))

update_partial_frame_best_effort(m, buffer, x, y, w, h) ==
  LET s1 == cmd_with_data(m, "DataStartTransmission2", buffer)
  IN Try(s1, LAMBDA t : Ok(t))

\* unimplemented!(): the call panics, it returns neither Ok nor Err
update_partial_frame(m, buffer, x, y, w, h) == [m EXCEPT !.res = "Panic"]

display_frame_no_wait(m) ==
  LET s1 == command(m, "DisplayRefresh")
  IN Try(s1, LAMBDA t : Ok(t))

display_frame_wait_first(m) ==
  LET s1 == command(wait_until_idle(m), "DisplayRefresh")
  IN Try(s1, LAMBDA t : Ok(t))

display_frame(m) ==
  LET s1 == command(m, "DisplayRefresh")
  IN Try(s1, LAMBDA t : Ok(wait_until_idle(t)))

update_and_display_frame_unchecked(m, buffer) ==
  LET s1 == update_frame(m, buffer)
      s2 == display_frame(s1)
  IN Try(s2, LAMBDA t : Ok(t))

update_and_display_frame(m, buffer) ==
  LET s1 == update_frame(m, buffer)
      s2 == Try(s1, LAMBDA t : display_frame(t))
  IN Try(s2, LAMBDA t : Ok(t))

clear_frame_no_wait(m) ==
  LET c  == get_byte_value(DEFAULT_BACKGROUND_COLOR)
      s1 == command(m, "DataStartTransmission1")
      s2 == Try(s1, LAMBDA t : interface_data_x_times(t, c, NUM_DISPLAY_BITS))
      s3 == Try(s2, LAMBDA t : command(t, "DataStartTransmission2"))
      s4 == Try(s3, LAMBDA t : interface_data_x_times(t, c, NUM_DISPLAY_BITS))
  IN Try(s4, LAMBDA t : Ok(t))

clear_frame_current_color(m) ==
  LET s0 == wait_until_idle(m)
      c  == get_byte_value(m.color)
      s1 == command(s0, "DataStartTransmission1")
      s2 == Try(s1, LAMBDA t : interface_data_x_times(t, c, NUM_DISPLAY_BITS))
      s3 == Try(s2, LAMBDA t : command(t, "DataStartTransmission2"))
      s4 == Try(s3, LAMBDA t : interface_data_x_times(t, c, NUM_DISPLAY_BITS))
  IN Try(s4, LAMBDA t : Ok(t))

clear_frame(m) ==
  LET s0 == wait_until_idle(m)
      c  == get_byte_value(DEFAULT_BACKGROUND_COLOR)
      s1 == command(s0, "DataStartTransmission1")
      s2 == Try(s1, LAMBDA t : interface_data_x_times(t, c, NUM_DISPLAY_BITS))
      s3 == Try(s2, LAMBDA t : command(t, "DataStartTransmission2"))
      s4 == Try(s3, LAMBDA t : interface_data_x_times(t, c, NUM_DISPLAY_BITS))
  IN Try(s4, LAMBDA t : Ok(t))

set_lut_loads_tables(m, refresh_rate) == set_full_reg(m)

set_lut(m, refresh_rate) == Ok(m)

is_busy_active_high(level) == interface_is_busy(~IS_BUSY_LOW, level)

is_busy(level) == interface_is_busy(IS_BUSY_LOW, level)

\* --------------------------------------------------- panel (spec 4.2, 7)
\* The panel's lifecycle as the specification names it.  A successful
\* cold-init makes it Active, a successful sleep Asleep; an init or a sleep
\* that a transport failure cut short leaves it partially configured.
PanelAfter(op, r, p) ==
  IF op \in {"new", "wake_up"}
    THEN (IF r = "Ok" THEN "Active" ELSE "Undefined")
  ELSE IF op = "sleep"
    THEN (IF r = "Ok" THEN "Asleep" ELSE "Undefined")
  ELSE p

\* ---------------------------------------------------------------- inputs
BufBytes == {15, 240}
FullBuffer == [i \in 1..NUM_DISPLAY_BITS |-> i % 256]
Buffers == UNION {[1..k -> BufBytes] : k \in 0..MaxLen} \cup {FullBuffer}
FailPoints == 0..MaxFailAt
Coords == {0, 8}
RefreshRates == {"None", "Full", "Quick"}
Levels == {0, 1}

\* ----------------------------------------------------------------- state
VARIABLES
  epd,        \* TRUE once `new` has returned a driver handle
  color,      \* the handle's `color` field (NoColor while there is no handle)
  lastOp,     \* the operation called last
  arg,        \* the buffer passed to it (<<>> if it takes none)
  trace,      \* what the last operation did on the bus, GPIO and delay lines
  res,        \* its outcome: "Ok", "Err" (transport failure), "Panic", "None"
  ret,        \* the colour returned by background_color (NoColor otherwise)
  lastSet,    \* the colour stored last by `new` or set_background_color
  coldTrace,  \* the trace of the construction that returned the handle
  prevSleep,  \* the operation before the last one was a successful sleep
  halted,     \* a panic has ended the program
  busyRet,    \* the value returned by is_busy (FALSE otherwise)
  panel,      \* the panel's lifecycle state
  call,       \* one application of address or of the resolution encoding
  run         \* the operation in progress, executed event by event

vars == <<epd, color, lastOp, arg, trace, res, ret, lastSet, coldTrace,
          prevSleep, halted, busyRet, panel, call, run>>

NoCall ==
  [fn |-> "none", opcode |-> "none", w |-> 0, h |-> 0, done |-> FALSE,
   out |-> <<>>]

\* pc = 0: no operation is in progress; otherwise pc is the position in
\* plan of the event to execute next.  line is the level of the busy line,
\* stuck says that the panel will never raise it again, hung that it was
\* already stuck when the operation was called, polls counts the samples of
\* the current wait that read busy.
NoRun ==
  [pc |-> 0, plan |-> <<>>, planRes |-> "None", line |-> 1, stuck |-> FALSE,
   hung |-> FALSE, polls |-> 0]

InitDriver ==
  /\ epd = FALSE
  /\ color = NoColor
  /\ lastOp = "none"
  /\ arg = <<>>
  /\ trace = <<>>
  /\ res = "None"
  /\ ret = NoColor
  /\ lastSet = NoColor
  /\ coldTrace = <<>>
  /\ prevSleep = FALSE
  /\ halted = FALSE
  /\ busyRet = FALSE
  /\ panel = "Uninitialized"

Init == InitDriver /\ call = NoCall /\ run = NoRun

\* what every operation on an existing handle records
Done(op, a, r) ==
  /\ lastOp' = op
  /\ arg' = a
  /\ trace' = r.trace
  /\ res' = r.res
  /\ color' = r.color
  /\ ret' = NoColor
  /\ prevSleep' = (lastOp = "sleep" /\ res = "Ok")
  /\ busyRet' = FALSE
  /\ panel' = PanelAfter(op, r.res, panel)
  /\ UNCHANGED <<epd, coldTrace, call, run>>

Live == epd /\ ~halted

New ==
  /\ ~epd /\ ~halted
  /\ \E f \in FailPoints :
       LET r == new(f) IN
         /\ lastOp' = "new"
         /\ arg' = <<>>
         /\ trace' = r.trace
         /\ res' = r.res
         /\ ret' = NoColor
         /\ prevSleep' = FALSE
         /\ busyRet' = FALSE
         /\ panel' = PanelAfter("new", r.res, panel)
         /\ IF r.res = "Ok"
              THEN /\ epd' = TRUE
                   /\ color' = r.color
                   /\ lastSet' = r.color
                   /\ coldTrace' = r.trace
              ELSE UNCHANGED <<epd, color, lastSet, coldTrace>>
         /\ UNCHANGED <<halted, call, run>>

Sleep ==
  /\ Live
  /\ \E f \in FailPoints : Done("sleep", <<>>, sleep(Begin(color, f)))
  /\ UNCHANGED <<lastSet, halted>>

WakeUp ==
  /\ Live
  /\ \E f \in FailPoints : Done("wake_up", <<>>, wake_up(Begin(color, f)))
  /\ UNCHANGED <<lastSet, halted>>

SetBackgroundColor ==
  /\ Live
  /\ \E c \in Color :
       /\ Done("set_background_color", <<>>,
               set_background_color(Begin(color, 0), c))
       /\ lastSet' = c
  /\ UNCHANGED halted

BackgroundColor ==
  /\ Live
  /\ lastOp' = "background_color"
  /\ arg' = <<>>
  /\ trace' = <<>>
  /\ res' = "Ok"
  /\ ret' = background_color(Begin(color, 0))
  /\ prevSleep' = (lastOp = "sleep" /\ res = "Ok")
  /\ busyRet' = FALSE
  /\ UNCHANGED <<epd, color, lastSet, coldTrace, halted, panel, call, run>>

UpdateFrame ==
  /\ Live
  /\ \E f \in FailPoints, b \in Buffers :
       Done("update_frame", b, update_frame(Begin(color, f), b))
  /\ UNCHANGED <<lastSet, halted>>

UpdatePartialFrame ==
  /\ Live
  /\ \E b \in Buffers, x \in Coords, y \in Coords, w \in Coords, h \in Coords :
       Done("update_partial_frame", b,
            update_partial_frame(Begin(color, 0), b, x, y, w, h))
  \* the panic aborts the program, or unwinds to a caller that catches it
  /\ halted' \in BOOLEAN
  /\ UNCHANGED lastSet

DisplayFrame ==
  /\ Live
  /\ \E f \in FailPoints :
       Done("display_frame", <<>>, display_frame(Begin(color, f)))
  /\ UNCHANGED <<lastSet, halted>>

UpdateAndDisplayFrame ==
  /\ Live
  /\ \E f \in FailPoints, b \in Buffers :
       Done("update_and_display_frame", b,
            update_and_display_frame(Begin(color, f), b))
  /\ UNCHANGED <<lastSet, halted>>

ClearFrame ==
  /\ Live
  /\ \E f \in FailPoints :
       Done("clear_frame", <<>>, clear_frame(Begin(color, f)))
  /\ UNCHANGED <<lastSet, halted>>

SetLut ==
  /\ Live
  /\ \E rr \in RefreshRates :
       Done("set_lut", <<>>, set_lut(Begin(color, 0), rr))
  /\ UNCHANGED <<lastSet, halted>>

IsBusy ==
  /\ Live
  /\ \E level \in Levels :
       /\ trace' = << Ev("sample", <<level>>, TRUE) >>
       /\ busyRet' = is_busy(level)
  /\ lastOp' = "is_busy"
  /\ arg' = <<>>
  /\ res' = "Ok"
  /\ ret' = NoColor
  /\ prevSleep' = (lastOp = "sleep" /\ res = "Ok")
  /\ UNCHANGED <<epd, color, lastSet, coldTrace, halted, panel, call, run>>

Next ==
  \/ New
  \/ Sleep
  \/ WakeUp
  \/ SetBackgroundColor
  \/ BackgroundColor
  \/ UpdateFrame
  \/ UpdatePartialFrame
  \/ DisplayFrame
  \/ UpdateAndDisplayFrame
  \/ ClearFrame
  \/ SetLut
  \/ IsBusy

Spec == Init /\ [][Next]_vars

\* ------------------------------------------- the pure functions, applied
Opcodes == DOMAIN Command
Dims == 0..MaxDim
Heights == {0, 127, 128, 255, 300}

InitPure ==
  /\ InitDriver
  /\ run = NoRun
  /\ \/ \E c \in Opcodes :
          call = [NoCall EXCEPT !.fn = "address", !.opcode = c]
     \/ \E w \in Dims, h \in Heights :
          call = [NoCall EXCEPT !.fn = "resolution", !.w = w, !.h = h]

driverVars == <<epd, color, lastOp, arg, trace, res, ret, lastSet, coldTrace,
                prevSleep, halted, busyRet, panel>>

ApplyAddress ==
  /\ call.fn = "address" /\ ~call.done
  /\ call' = [call EXCEPT !.done = TRUE, !.out = <<address(call.opcode)>>]
  /\ UNCHANGED <<driverVars, run>>

ApplyResolution ==
  /\ call.fn = "resolution" /\ ~call.done
  /\ call' = [call EXCEPT !.done = TRUE,
                          !.out = resolution_bytes(call.w, call.h)]
  /\ UNCHANGED <<driverVars, run>>

NextPure ==
  \/ ApplyAddress
  \/ ApplyResolution

SpecPure == InitPure /\ [][NextPure]_vars

\* ------------------------------- the operations, one event at a time
\* The events an operation performs are those of its atomic run; here they
\* are executed one by one, and a wait_until_idle ("idle") is the adapter's
\* loop `while is_busy {}`: each pass samples the busy line, which the panel
\* drives, and the wait ends only on a sample that reads idle.
PollOps ==
  {"new", "wake_up", "sleep", "update_frame", "display_frame", "clear_frame"}
PollBuffers == {<<>>, <<15>>}

PlanOf(op, c, f, b) ==
  CASE op = "new" -> new(f)
    [] op = "wake_up" -> wake_up(Begin(c, f))
    [] op = "sleep" -> sleep(Begin(c, f))
    [] op = "update_frame" -> update_frame(Begin(c, f), b)
    [] op = "display_frame" -> display_frame(Begin(c, f))
    [] op = "clear_frame" -> clear_frame(Begin(c, f))

InitPoll ==
  /\ InitDriver
  /\ call = NoCall
  /\ \E l \in Levels : run = [NoRun EXCEPT !.line = l]

Running == run.pc > 0

AtEvent == Running /\ run.pc <= Len(run.plan)

Call ==
  /\ ~Running /\ ~halted
  /\ \E op \in PollOps, f \in FailPoints, b \in PollBuffers :
       /\ (op = "new") <=> ~epd
       /\ (op # "update_frame") => b = <<>>
       /\ LET r == PlanOf(op, color, f, b)
          IN run' = [run EXCEPT !.pc = 1, !.plan = r.trace,
                                !.planRes = r.res, !.polls = 0,
                                !.hung = run.stuck]
       /\ lastOp' = op
       /\ arg' = b
  /\ trace' = <<>>
  /\ res' = "None"
  /\ prevSleep' = (lastOp = "sleep" /\ res = "Ok")
  /\ UNCHANGED <<epd, color, ret, lastSet, coldTrace, halted, busyRet, panel,
                 call>>

Step ==
  /\ AtEvent /\ run.plan[run.pc].k # "idle"
  /\ trace' = Append(trace, run.plan[run.pc])
  /\ run' = [run EXCEPT !.pc = @ + 1]
  /\ UNCHANGED <<epd, color, lastOp, arg, res, ret, lastSet, coldTrace,
                 prevSleep, halted, busyRet, panel, call>>

PollBusy ==
  /\ AtEvent /\ run.plan[run.pc].k = "idle"
  /\ interface_is_busy(IS_BUSY_LOW, run.line)
  /\ run' = [run EXCEPT !.polls = IF @ < MaxPolls THEN @ + 1 ELSE @]
  /\ UNCHANGED <<driverVars, call>>

PollIdle ==
  /\ AtEvent /\ run.plan[run.pc].k = "idle"
  /\ ~interface_is_busy(IS_BUSY_LOW, run.line)
  /\ trace' = Append(trace, run.plan[run.pc])
  /\ run' = [run EXCEPT !.pc = @ + 1, !.polls = 0]
  /\ UNCHANGED <<epd, color, lastOp, arg, res, ret, lastSet, coldTrace,
                 prevSleep, halted, busyRet, panel, call>>

Return ==
  /\ Running /\ run.pc = Len(run.plan) + 1
  /\ res' = run.planRes
  /\ panel' = PanelAfter(lastOp, run.planRes, panel)
  /\ IF lastOp = "new" /\ run.planRes = "Ok"
       THEN /\ epd' = TRUE
            /\ color' = DEFAULT_BACKGROUND_COLOR
            /\ lastSet' = DEFAULT_BACKGROUND_COLOR
            /\ coldTrace' = run.plan
       ELSE UNCHANGED <<epd, color, lastSet, coldTrace>>
  /\ run' = [run EXCEPT !.pc = 0, !.plan = <<>>, !.planRes = "None"]
  /\ UNCHANGED <<lastOp, arg, trace, ret, prevSleep, halted, busyRet, call>>

\* the panel drives the busy line
PanelIdle ==
  /\ ~run.stuck /\ run.line = 0
  /\ run' = [run EXCEPT !.line = 1]
  /\ UNCHANGED <<driverVars, call>>

PanelBusy ==
  /\ run.line = 1
  /\ run' = [run EXCEPT !.line = 0]
  /\ UNCHANGED <<driverVars, call>>

\* from now on the panel holds the line at busy
PanelSticks ==
  /\ ~run.stuck
  /\ run' = [run EXCEPT !.stuck = TRUE, !.line = 0]
  /\ UNCHANGED <<driverVars, call>>

NextPoll ==
  \/ Call
  \/ Step
  \/ PollBusy
  \/ PollIdle
  \/ Return
  \/ PanelIdle
  \/ PanelBusy
  \/ PanelSticks

\* The driver keeps running (Step, Return); a panel that is not stuck raises
\* the busy line again and again (PanelIdle), and a poll that is repeated
\* for ever meets one of the moments at which the line is idle (PollIdle).
SpecPoll ==
  /\ InitPoll /\ [][NextPoll]_vars
  /\ WF_vars(Step) /\ WF_vars(Return) /\ WF_vars(PanelIdle)
  /\ SF_vars(PollIdle)

TypeOK ==
  /\ epd \in BOOLEAN
  /\ color \in Color \cup {NoColor}
  /\ res \in {"Ok", "Err", "Panic", "None"}
  /\ halted \in BOOLEAN

\* ------------------------------------------------------------ properties
\* the events a claim expects, written with the byte values of the protocol
CmdEv(b) == Ev("cmd", <<b>>, TRUE)
DataEv(bytes) == Ev("data", bytes, TRUE)
IdleEv == Ev("idle", <<>>, TRUE)
DelayEv(ms) == Ev("delay", <<ms>>, TRUE)
RstEv(level) == Ev("rst", <<level>>, TRUE)
Fill(b) == [i \in 1..1280 |-> b]

\* no bus write of the last operation failed
NoFailure == \A i \in 1..Len(trace) : trace[i].ok

IsWrite(e) == e.k \in {"cmd", "data"}

\* C1: update_frame with no transport failure returns success and emits
\* DataStartTransmission1 (0x10), 1280 data bytes of the current colour's
\* encoded byte, one idle wait, DataStartTransmission2 (0x13), then the
\* buffer's bytes unmodified and in order, whatever the buffer's length.
C1_UpdateFrameTrace ==
  (lastOp = "update_frame" /\ NoFailure) =>
    /\ res = "Ok"
    /\ trace = << CmdEv(16), DataEv(Fill(get_byte_value(color))), IdleEv,
                  CmdEv(19), DataEv(arg) >>

C1_Witness ==
  /\ lastOp = "update_frame" /\ res = "Ok"
  /\ color = "Black" /\ arg = <<>>

\* C2: clear_frame with no transport failure writes 2560 data bytes as two
\* flood-fills of 1280 bytes (one after 0x10, one after 0x13), every byte the
\* encoded byte of the default colour White (0xFF), whatever the current
\* colour is.
C2_ClearFrameTrace ==
  (lastOp = "clear_frame" /\ NoFailure) =>
    /\ res = "Ok"
    /\ trace = << IdleEv, CmdEv(16), DataEv(Fill(255)),
                  CmdEv(19), DataEv(Fill(255)) >>
    /\ Len(trace[3].v) + Len(trace[5].v) = 2560

C2_Witness ==
  /\ lastOp = "clear_frame" /\ res = "Ok" /\ color = "Black"

\* C3 as stated: update_partial_frame fails with an "unsupported" value that
\* is returned to the caller, and performs zero bus writes.
C3_ReturnsUnsupported ==
  lastOp = "update_partial_frame" => (res = "Unsupported" /\ trace = <<>>)

\* C3 amended: update_partial_frame, for all arguments and in every driver
\* state, panics: it returns no value (neither success nor a transport
\* failure), performs zero bus writes and leaves the colour unchanged.
C3_PanicsWithoutWrites ==
  lastOp = "update_partial_frame" =>
    (res = "Panic" /\ trace = <<>> /\ color = lastSet)

C3_Witness ==
  /\ lastOp = "update_partial_frame" /\ res = "Panic" /\ Len(arg) > 0

\* position of the only event equal to e (0 if there is none or several)
PosOf(e) ==
  LET S == {i \in 1..Len(trace) : trace[i] = e}
  IN IF Cardinality(S) = 1 THEN CHOOSE i \in S : TRUE ELSE 0

\* C4: a construction with no transport failure starts with one reset pulse
\* held low 2 ms, then does the register-configuration writes, then the LutG0
\* load (0x23), then the LutG1 load (0x24), then PowerOn (0x04), then a 5 ms
\* delay, then exactly one idle wait; PowerOn is the last bus write and no
\* idle wait precedes it.
C4_ConstructionOrder ==
  (lastOp = "new" /\ NoFailure) =>
    LET n  == Len(trace)
        g0 == PosOf(CmdEv(35))
        g1 == PosOf(CmdEv(36))
    IN /\ res = "Ok" /\ epd
       /\ SubSeq(trace, 1, 3) = << RstEv(0), DelayEv(2), RstEv(1) >>
       /\ Cardinality({i \in 1..n : trace[i].k = "rst"}) = 2
       /\ g0 > 3 /\ g1 = g0 + 2 /\ n = g1 + 4
       /\ \A i \in 4..(g0 - 1) : IsWrite(trace[i])
       /\ trace[g0 + 1].k = "data" /\ trace[g1 + 1].k = "data"
       /\ SubSeq(trace, n - 2, n) = << CmdEv(4), DelayEv(5), IdleEv >>
       /\ Cardinality({i \in 1..n : trace[i].k = "idle"}) = 1

C4_Witness ==
  /\ lastOp = "new" /\ res = "Ok" /\ epd /\ coldTrace = trace

\* C5: a wake_up that succeeds, in particular one called right after sleep
\* and with any current colour, emits the same events in the same order as
\* the construction did.
C5_WakeUpEqualsColdInit ==
  (lastOp = "wake_up" /\ res = "Ok") => trace = coldTrace

C5_Witness ==
  /\ lastOp = "wake_up" /\ res = "Ok" /\ prevSleep /\ color = "Black"

\* C6: a failed bus write is the last event of its operation, the operation
\* returns the transport failure, construction returns no handle, and
\* update_and_display_frame sends no DisplayRefresh (0x12) after a failure
\* inside update_frame.
C6_FailureAborts ==
  /\ \A i \in 1..Len(trace) :
       ~trace[i].ok =>
         /\ i = Len(trace)
         /\ IsWrite(trace[i])
         /\ res = "Err"
         /\ (lastOp = "new" => ~epd)
  /\ res = "Err" => (trace # <<>> /\ ~trace[Len(trace)].ok)
  /\ (lastOp = "update_and_display_frame" /\ res = "Err") =>
       \A i \in 1..Len(trace) : trace[i] # CmdEv(18)

C6_Witness ==
  /\ lastOp = "update_and_display_frame" /\ res = "Err" /\ Len(trace) = 2

\* C7: sleep with no transport failure does exactly: idle wait, PowerOff
\* (0x02), idle wait, DeepSleep (0x07) with the one parameter byte 0xA5.
C7_SleepTrace ==
  (lastOp = "sleep" /\ NoFailure) =>
    /\ res = "Ok"
    /\ trace = << IdleEv, CmdEv(2), IdleEv, CmdEv(7), DataEv(<<165>>) >>

C7_Witness ==
  /\ lastOp = "sleep" /\ res = "Ok" /\ Len(trace) = 5

\* C8: display_frame sends the single bus write DisplayRefresh (0x12) and
\* then waits for idle; update_and_display_frame(buffer) emits the trace of
\* update_frame(buffer) followed by that of display_frame.
C8_DisplayAfterUpdate ==
  /\ (lastOp = "display_frame" /\ NoFailure) =>
       (res = "Ok" /\ trace = << CmdEv(18), IdleEv >>)
  /\ (lastOp = "update_and_display_frame" /\ NoFailure) =>
       /\ res = "Ok"
       /\ trace = << CmdEv(16), DataEv(Fill(get_byte_value(color))), IdleEv,
                     CmdEv(19), DataEv(arg), CmdEv(18), IdleEv >>

C8_Witness ==
  /\ lastOp = "update_and_display_frame" /\ res = "Ok" /\ Len(arg) = 1

\* C9: background_color returns the colour stored by the latest
\* set_background_color, and neither call writes to the bus, changes a GPIO
\* line, delays or polls the busy line.
C9_ColorRoundTrip ==
  /\ lastOp = "background_color" => (ret = lastSet /\ trace = <<>>)
  /\ lastOp = "set_background_color" => (color = lastSet /\ trace = <<>>)

C9_Witness ==
  /\ lastOp = "background_color" /\ ret = "Black"

\* C10: the resolution setting of a successful init is the opcode 0x61
\* followed by exactly two payload bytes, 0x50 then 0x80, and the next event
\* is the following command.
C10_ResolutionBytes ==
  (lastOp \in {"new", "wake_up"} /\ res = "Ok") =>
    LET i == PosOf(CmdEv(97))
    IN /\ i > 0
       /\ SubSeq(trace, i + 1, i + 2) = << DataEv(<<80>>), DataEv(<<128>>) >>
       /\ trace[i + 3].k = "cmd"

C10_Witness ==
  /\ lastOp \in {"new", "wake_up"} /\ res = "Ok"
  /\ \E i \in 1..Len(trace) : trace[i] = CmdEv(97)

\* C11: set_lut, for every refresh-rate argument and in every driver state,
\* returns success, performs no bus write (nor any other line activity) and
\* leaves the background colour unchanged.
C11_SetLutNoOp ==
  [][lastOp' = "set_lut" =>
       (res' = "Ok" /\ trace' = <<>> /\ color' = color /\ panel' = panel)]_vars

C11_Witness ==
  /\ lastOp = "set_lut" /\ res = "Ok" /\ color = "Black" /\ trace = <<>>

\* C13: is_busy reads the busy line once and returns TRUE exactly when that
\* sample is low; it performs no bus write and changes no driver state.
C13_IsBusySingleSample ==
  lastOp = "is_busy" =>
    /\ Len(trace) = 1
    /\ trace[1].k = "sample"
    /\ busyRet = (trace[1].v = <<0>>)
    /\ res = "Ok"
    /\ color = lastSet

C13_Witness ==
  /\ lastOp = "is_busy" /\ busyRet /\ trace[1].v = <<0>>

\* the opcodes of the successful command writes of the last operation that
\* precede position n
RECURSIVE OpcodesBefore(_)
OpcodesBefore(n) ==
  IF n <= 1 THEN <<>>
  ELSE LET e == trace[n - 1]
       IN OpcodesBefore(n - 1) \o (IF e.k = "cmd" THEN e.v ELSE <<>>)

\* C14 as stated: in cold-init the opcodes sent between the reset pulse and
\* the first LUT load are panel setting, power setting, charge pump,
\* LUT-optimization, PLL, VCOM-and-data-interval, gate/source non-overlap,
\* resolution, VCOM-DC, power-saving, panel setting being the first.
C14_ConfigOpcodesAsListed ==
  (lastOp \in {"new", "wake_up"} /\ res = "Ok") =>
    OpcodesBefore(PosOf(CmdEv(35))) = <<0, 1, 6, 42, 48, 80, 96, 97, 130, 227>>

\* C14 amended: the opcodes sent between the reset pulse and the first LUT
\* load are, in this order and each once: 0xD2 (UnknownInit), panel setting,
\* power setting, charge pump, LUT-optimization, PLL, VCOM-and-data-interval,
\* gate/source non-overlap, resolution, VCOM-DC, power-saving; the first
\* opcode written after the reset pulse is 0xD2, directly followed by panel
\* setting.
C14_ConfigOpcodes ==
  (lastOp \in {"new", "wake_up"} /\ res = "Ok") =>
    /\ OpcodesBefore(PosOf(CmdEv(35))) =
         <<210, 0, 1, 6, 42, 48, 80, 96, 97, 130, 227>>
    /\ SubSeq(trace, 1, 3) = << RstEv(0), DelayEv(2), RstEv(1) >>
    /\ trace[4] = CmdEv(210)

C14_Witness ==
  /\ lastOp = "new" /\ res = "Ok" /\ trace[4] = CmdEv(210)
  /\ trace[6] = CmdEv(0)

\* a command write of opcode b was attempted in tr
HasOpcode(tr, b) == \E i \in 1..Len(tr) : tr[i].k = "cmd" /\ tr[i].v = <<b>>

\* C16 as stated: DataStartTransmission1, DataStartTransmission2 and
\* DisplayRefresh are sent only while the panel is Active.
C16_FrameOpcodesOnlyWhenActive ==
  (\E i \in 1..Len(trace) : trace[i] \in {CmdEv(16), CmdEv(19), CmdEv(18)})
    => panel = "Active"

\* C16 amended: the driver keeps no lifecycle state: update_frame,
\* update_and_display_frame and clear_frame send DataStartTransmission1 and
\* display_frame sends DisplayRefresh whenever they are called, also while
\* the panel is Asleep, and they do not change the panel's state; an Asleep
\* panel becomes Active only by a successful wake_up, which repeats the
\* construction's cold-init.
C16_NoLifecycleGuard ==
  [][/\ lastOp' \in {"update_frame", "update_and_display_frame", "clear_frame"}
          => (HasOpcode(trace', 16) /\ panel' = panel)
     /\ lastOp' = "display_frame"
          => (HasOpcode(trace', 18) /\ panel' = panel)
     /\ (panel = "Asleep" /\ panel' = "Active")
          => (lastOp' = "wake_up" /\ res' = "Ok" /\ trace' = coldTrace)]_vars

C16_Witness ==
  /\ panel = "Asleep" /\ lastOp = "update_frame" /\ res = "Ok"
  /\ trace[1] = CmdEv(16)

\* C18: after a PowerOn (0x04), PowerOff (0x02) or DisplayRefresh (0x12)
\* opcode has been sent, the next thing the driver does on the bus is
\* preceded by an idle wait, and that wait is in the same operation, so no
\* later operation can write before it: PowerOn and DisplayRefresh are
\* followed by the wait that ends the operation, PowerOff by the wait before
\* DeepSleep.
C18_WaitAfterPowerAndRefresh ==
  \A i \in 1..Len(trace) :
    trace[i] \in {CmdEv(4), CmdEv(2), CmdEv(18)} =>
      \E j \in (i + 1)..Len(trace) :
        /\ trace[j] = IdleEv
        /\ \A h \in (i + 1)..(j - 1) : ~IsWrite(trace[h])
        /\ trace[i] \in {CmdEv(4), CmdEv(18)} => j = Len(trace)
        /\ trace[i] = CmdEv(2) => (j = i + 1 /\ trace[j + 1].v = <<7>>)

C18_Witness ==
  /\ lastOp = "update_and_display_frame" /\ res = "Ok"
  /\ trace[6] = CmdEv(18) /\ trace[7] = IdleEv

\* C19: the colour is White when construction returns the handle, and after
\* that every operation other than set_background_color leaves it as it
\* was, whether the operation succeeds or fails.
C19_ColorOnlySetBySetter ==
  [][/\ (~epd /\ epd') => color' = "White"
     /\ (epd /\ lastOp' # "set_background_color") => color' = color]_vars

C19_Witness ==
  /\ lastOp = "wake_up" /\ res = "Err" /\ prevSleep /\ color = "Black"

\* the discriminants as command.rs lists them
AddressTable ==
  [ PanelSetting |-> 0, PowerSetting |-> 1, PowerOff |-> 2, PowerOn |-> 4,
    ChargePumpSetting |-> 6, DeepSleep |-> 7, DataStartTransmission1 |-> 16,
    DisplayRefresh |-> 18, DataStartTransmission2 |-> 19,
    LutForVcom |-> 32, LutWhiteToWhite |-> 33, LutBlackToWhite |-> 34,
    LutG0 |-> 35, LutG1 |-> 36, LutRedVcom |-> 37, LutRed0 |-> 38,
    LutRed1 |-> 39, LutOpt |-> 42, PllControl |-> 48,
    TemperatureSensor |-> 64, TemperatureSensorSelection |-> 65,
    VcomAndDataIntervalSetting |-> 80, GateAndSourceNonOverlapPeriod |-> 96,
    ResolutionSetting |-> 97, VcmDcSetting |-> 130, UnknownInit |-> 210,
    PowerSaving |-> 227 ]

\* C12: address(opcode) is the opcode's fixed byte of the table, for every
\* opcode of the enumeration, and no other opcode has the same address.
C12_AddressTable ==
  (call.fn = "address" /\ call.done) =>
    /\ call.out = <<AddressTable[call.opcode]>>
    /\ call.out[1] \in 0..255
    /\ \A d \in Opcodes \ {call.opcode} : <<address(d)>> # call.out

C12_Witness ==
  /\ call.fn = "address" /\ call.done /\ call.opcode = "UnknownInit"
  /\ call.out = <<210>>

\* C15 as stated: the first payload byte has bits 3 to 0 zero and its top 4
\* bits equal to the top 4 bits of w; the second byte is h mod 256.
C15_TopNibble ==
  (call.fn = "resolution" /\ call.done /\ call.w <= 255) =>
    /\ call.out[1] % 16 = 0
    /\ call.out[1] \div 16 = call.w \div 16
    /\ call.out[2] = call.h % 256

\* C15 amended: the first payload byte is w & 0b0111_1000: its bits 2 to 0
\* and its bit 7 are zero and its bits 6 to 3 equal bits 6 to 3 of w; the
\* second byte is h mod 256, not masked.
C15_Hres6To3 ==
  (call.fn = "resolution" /\ call.done) =>
    /\ Len(call.out) = 2
    /\ call.out[1] % 8 = 0
    /\ call.out[1] < 128
    /\ (call.out[1] \div 8) % 16 = (call.w \div 8) % 16
    /\ call.out[2] = call.h % 256

C15_Witness ==
  /\ call.fn = "resolution" /\ call.done /\ call.w = 200 /\ call.h = 300
  /\ call.out = <<72, 44>>

Returned == ~Running /\ lastOp \in PollOps

\* C17 as stated: if the panel never reports idle (from the call on) then new, wake_up, sleep,
\* update_frame, display_frame and clear_frame never return.
C17_StuckNeverReturns == run.hung => ~Returned

\* C17 amended: a wait_until_idle ends only on a sample of the busy line that
\* reads idle.  If the panel never reports idle, sleep and clear_frame never
\* return, and new, wake_up, update_frame and display_frame return only with
\* the transport failure of a bus write that precedes their idle wait, never
\* with success.  If the panel raises the line again and again, every one of
\* these operations returns.
C17_BusyPollTermination ==
  /\ [][(Running /\ run.pc' = run.pc + 1 /\ run.plan[run.pc].k = "idle")
          => run.line = 1]_vars
  /\ [](run.hung =>
          /\ \A i \in 1..Len(trace) : trace[i].k # "idle"
          /\ Returned => (res = "Err" /\ lastOp \notin {"sleep", "clear_frame"}))
  /\ Running ~> (~Running \/ run.stuck)

C17_Witness ==
  /\ run.hung /\ lastOp = "clear_frame" /\ run.pc = 1 /\ run.polls >= 2

====
